---------------------------- MODULE Spec2Model ----------------------------
(***************************************************************************)
(* State-machine model of the tracing demo services: the entry services    *)
(* (1_user-service, app1, the two earlier UserHandler variants, the        *)
(* HelloHandler service), the downstream services listening on :5001       *)
(* (authn, authz, app2), their startup (main) and their request handlers.  *)
(*                                                                         *)
(* Identifiers are byte sequences, header values are sequences of          *)
(* one-character strings; the span operations follow the tracing SDK       *)
(* the handlers call.                                                      *)
(***************************************************************************)
EXTENDS Integers, Sequences, FiniteSets, TLC

VARIABLES cfg, proc, req, call

vars == <<cfg, proc, req, call>>

(***************************************************************************)
(* Bounds of the model.                                                    *)
(***************************************************************************)
\* number of request slots of the entry service (requests handled at once)
MaxSlots == 2
\* number of distinct seeds of a process's random identifier source
NumSeeds == 2

(***************************************************************************)
(* Identifiers and their hexadecimal form.                                 *)
(***************************************************************************)
\* trace.TraceID is [16]byte, trace.SpanID is [8]byte
TraceIDSize == 16
SpanIDSize == 8

ZeroID(n) == [k \in 1..n |-> 0]

\* TraceID.IsValid / SpanID.IsValid: not all bytes zero
IsValid(id) == \E k \in 1..Len(id) : id[k] # 0

HexDigits == <<"0", "1", "2", "3", "4", "5", "6", "7",
               "8", "9", "a", "b", "c", "d", "e", "f">>

\* a mutant of the encoder: upper-case digits
HexDigitsUpper == <<"0", "1", "2", "3", "4", "5", "6", "7",
                    "8", "9", "A", "B", "C", "D", "E", "F">>

\* TraceID.String / SpanID.String: hex.EncodeToString, two lower-case
\* digits per byte, high nibble first
IDStringUpper(id) ==
    [k \in 1..(2 * Len(id)) |->
        IF k % 2 = 1 THEN HexDigitsUpper[(id[(k + 1) \div 2] \div 16) + 1]
                     ELSE HexDigitsUpper[(id[k \div 2] % 16) + 1]]

IDString(id) ==
    [k \in 1..(2 * Len(id)) |->
        IF k % 2 = 1 THEN HexDigits[(id[(k + 1) \div 2] \div 16) + 1]
                     ELSE HexDigits[(id[k \div 2] % 16) + 1]]

\* decodeHex accepts only 0-9 and a-f
IsLowerHex(c) == \E d \in 1..16 : HexDigits[d] = c

HexVal(c) == (CHOOSE d \in 1..16 : HexDigits[d] = c) - 1

\* a mutant of the parser: the two digits of a byte taken low nibble first
IDFromHexSwapped(h, n) ==
    IF Len(h) # 2 * n THEN ZeroID(n)
    ELSE IF \E k \in 1..Len(h) : ~IsLowerHex(h[k]) THEN ZeroID(n)
    ELSE [k \in 1..n |-> HexVal(h[2 * k]) * 16 + HexVal(h[2 * k - 1])]

\* a mutant of the parser: a character outside 0-9a-f is read as 0 and
\* the rest of the string is decoded
IDFromHexLenient(h, n) ==
    IF Len(h) # 2 * n THEN ZeroID(n)
    ELSE [k \in 1..n |->
            (IF IsLowerHex(h[2 * k - 1]) THEN HexVal(h[2 * k - 1]) ELSE 0) * 16
              + (IF IsLowerHex(h[2 * k]) THEN HexVal(h[2 * k]) ELSE 0)]

\* trace.TraceIDFromHex / trace.SpanIDFromHex with the error discarded
\* (tID, _ := ...): a wrong length or a character outside 0-9a-f leaves
\* the zero identifier; an all-zero string decodes to the zero identifier.
IDFromHex(h, n) ==
    IF Len(h) # 2 * n THEN ZeroID(n)
    ELSE IF \E k \in 1..Len(h) : ~IsLowerHex(h[k]) THEN ZeroID(n)
    ELSE [k \in 1..n |-> HexVal(h[2 * k - 1]) * 16 + HexVal(h[2 * k])]

\* whether the parse returned an error (which the handlers discard)
IDFromHexErr(h, n) ==
    \/ Len(h) # 2 * n
    \/ \E k \in 1..Len(h) : ~IsLowerHex(h[k])
    \/ ~IsValid(IDFromHex(h, n))

\* the byte stream of the SDK's random identifier source for seed s
RandByte(i) == (i * 73 + 10) % 256

\* idGenerator.NewIDs / NewSpanID: the j-th identifier read after seed s
NewTraceID(s, j) == [k \in 1..TraceIDSize |-> RandByte(s * 131 + j * 29 + k)]
NewSpanID(s, j) == [k \in 1..SpanIDSize |-> RandByte(s * 131 + j * 29 + k)]


(***************************************************************************)
(* The tracing SDK as the handlers use it.  A task is one handler          *)
(* invocation: the spans it started, the HTTP response it wrote, and a     *)
(* clock that orders its span operations and its response.                 *)
(***************************************************************************)
NoProvider == [ctor |-> "none", exporter |-> "none", service |-> "none"]

\* the zero trace.SpanContext, what context.Background() carries
NoCtx == [trace |-> ZeroID(TraceIDSize), span |-> ZeroID(SpanIDSize),
          remote |-> FALSE, sampled |-> FALSE]

NoResp == [status |-> 0, body |-> "none"]

NewTask(seed) ==
    [seed |-> seed, drawn |-> 0, clock |-> 0, spans |-> <<>>,
     resp |-> NoResp, respondedAt |-> 0, writes |-> 0, orphan |-> 0]

\* index of the span called name among the task's spans, 0 when the task
\* started no such span (the handler then holds the no-op span)
SpanIdx(t, name) ==
    IF \E i \in 1..Len(t.spans) : t.spans[i].name = name
    THEN CHOOSE i \in 1..Len(t.spans) : t.spans[i].name = name
    ELSE 0

\* span.SpanContext() of a span the task started
SpanCtx(sp) == [trace |-> sp.trace, span |-> sp.id, remote |-> FALSE, sampled |-> TRUE]

\* trace.SpanContextFromContext(ctx) for the context a local span returned
CtxOf(t, name) == IF SpanIdx(t, name) = 0 THEN NoCtx ELSE SpanCtx(t.spans[SpanIdx(t, name)])

\* a mutant of tracer.Start: every span opens a trace of its own
StartSpanNewRoot(t, name, psc, prov) ==
    LET c == t.clock + 1
        sp == [name |-> name, trace |-> NewTraceID(t.seed, t.drawn),
               id |-> NewSpanID(t.seed, t.drawn + 1),
               parent |-> psc.span, parentRemote |-> psc.remote,
               provider |-> prov, status |-> "Unset", statusMsg |-> "",
               events |-> <<>>, attrs |-> {}, ends |-> 0, late |-> 0,
               startedAt |-> c, endedAt |-> 0]
    IN [t EXCEPT !.clock = c, !.drawn = t.drawn + 2, !.spans = Append(t.spans, sp)]

\* tracer.Start(ctx, name) with psc the span context ctx carries: a valid
\* parent trace identifier is kept and a new span identifier drawn;
\* otherwise both identifiers are new.  The parent recorded is psc.
StartSpan(t, name, psc, prov) ==
    LET newRoot == ~IsValid(psc.trace)
        c == t.clock + 1
        sp == [name |-> name,
               trace |-> IF newRoot THEN NewTraceID(t.seed, t.drawn) ELSE psc.trace,
               id |-> IF newRoot THEN NewSpanID(t.seed, t.drawn + 1)
                                 ELSE NewSpanID(t.seed, t.drawn),
               parent |-> psc.span, parentRemote |-> psc.remote,
               provider |-> prov, status |-> "Unset", statusMsg |-> "",
               events |-> <<>>, attrs |-> {}, ends |-> 0, late |-> 0,
               startedAt |-> c, endedAt |-> 0]
    IN [t EXCEPT !.clock = c,
                 !.drawn = IF newRoot THEN t.drawn + 2 ELSE t.drawn + 1,
                 !.spans = Append(t.spans, sp)]

\* a call on a span: on the no-op span nothing happens; on an ended span
\* the SDK drops the call (IsRecording is false), counted in late
OnSpan(t, name, f(_)) ==
    LET i == SpanIdx(t, name) IN
    IF i = 0 THEN [t EXCEPT !.clock = t.clock + 1, !.orphan = t.orphan + 1]
    ELSE IF t.spans[i].ends > 0
         THEN [t EXCEPT !.clock = t.clock + 1, !.spans[i].late = t.spans[i].late + 1]
         ELSE [t EXCEPT !.clock = t.clock + 1, !.spans[i] = f(t.spans[i])]

AddEventTo(sp, kind, msg) == [sp EXCEPT !.events = Append(sp.events, <<kind, msg>>)]

SetAttributeOn(sp, key, val) ==
    [sp EXCEPT !.attrs = {kv \in sp.attrs : kv[1] # key} \cup {<<key, val>>}]

StatusRank(code) == CASE code = "Unset" -> 0 [] code = "Error" -> 1 [] code = "Ok" -> 2

\* span.SetStatus: a lower code never replaces a higher one
SetStatusOn(sp, code, msg) ==
    IF StatusRank(sp.status) > StatusRank(code) THEN sp
    ELSE [sp EXCEPT !.status = code, !.statusMsg = IF code = "Error" THEN msg ELSE ""]

\* a mutant of span.End: the call is dropped
EndSpanDropped(t, name) == [t EXCEPT !.clock = t.clock + 1]

\* span.End(): the first call ends the span, later calls return at once
EndSpan(t, name) ==
    LET i == SpanIdx(t, name) IN
    IF i = 0 THEN [t EXCEPT !.clock = t.clock + 1]
    ELSE [t EXCEPT !.clock = t.clock + 1,
                   !.spans[i].ends = t.spans[i].ends + 1,
                   !.spans[i].endedAt = IF t.spans[i].ends = 0 THEN t.clock + 1
                                        ELSE t.spans[i].endedAt]

\* c.JSON / c.String / the recovery middleware's c.AbortWithStatus: the
\* first write fixes the status line
Respond(t, status, body) ==
    [t EXCEPT !.clock = t.clock + 1,
              !.writes = t.writes + 1,
              !.resp = IF t.writes = 0 THEN [status |-> status, body |-> body] ELSE t.resp,
              !.respondedAt = IF t.writes = 0 THEN t.clock + 1 ELSE t.respondedAt]

(***************************************************************************)
(* Handler code is written as the sequence of its span operations.         *)
(***************************************************************************)
Start(name, parent) == [op |-> "Start", span |-> name, a |-> parent, b |-> ""]
StartRemote(name) == [op |-> "StartRemote", span |-> name, a |-> "", b |-> ""]
AddEvent(name, msg) == [op |-> "AddEvent", span |-> name, a |-> msg, b |-> ""]
SetAttributes(name, key, val) == [op |-> "SetAttributes", span |-> name, a |-> key, b |-> val]
RecordError(name, msg) == [op |-> "RecordError", span |-> name, a |-> msg, b |-> ""]
SetStatus(name, code, msg) == [op |-> "SetStatus", span |-> name, a |-> code, b |-> msg]
End(name) == [op |-> "End", span |-> name, a |-> "", b |-> ""]
Write(status, body) == [op |-> "Write", span |-> "", a |-> status, b |-> body]

\* a mutant of the handlers' statements: the response is refused (400)
\* unless the request carried a valid trace identifier
ExecValidates(t, o, sc, prov) ==
    CASE o.op = "Start" ->
           StartSpan(t, o.span, IF o.a = "" THEN NoCtx ELSE CtxOf(t, o.a), prov)
      [] o.op = "StartRemote" -> StartSpan(t, o.span, sc, prov)
      [] o.op = "AddEvent" -> OnSpan(t, o.span, LAMBDA sp : AddEventTo(sp, "event", o.a))
      [] o.op = "SetAttributes" -> OnSpan(t, o.span, LAMBDA sp : SetAttributeOn(sp, o.a, o.b))
      [] o.op = "RecordError" -> OnSpan(t, o.span, LAMBDA sp : AddEventTo(sp, "exception", o.a))
      [] o.op = "SetStatus" -> OnSpan(t, o.span, LAMBDA sp : SetStatusOn(sp, o.a, o.b))
      [] o.op = "End" -> EndSpan(t, o.span)
      [] o.op = "Write" ->
           IF IsValid(sc.trace) THEN Respond(t, o.a, o.b)
           ELSE Respond(t, 400, [kind |-> "text", fields |-> {<<"text", "bad trace id">>}])

\* one operation applied to task t; sc is the remote span context of the
\* request (NoCtx in the entry services), prov the process-wide provider
Exec(t, o, sc, prov) ==
    CASE o.op = "Start" ->
           StartSpan(t, o.span, IF o.a = "" THEN NoCtx ELSE CtxOf(t, o.a), prov)
      [] o.op = "StartRemote" -> StartSpan(t, o.span, sc, prov)
      [] o.op = "AddEvent" -> OnSpan(t, o.span, LAMBDA sp : AddEventTo(sp, "event", o.a))
      [] o.op = "SetAttributes" -> OnSpan(t, o.span, LAMBDA sp : SetAttributeOn(sp, o.a, o.b))
      [] o.op = "RecordError" -> OnSpan(t, o.span, LAMBDA sp : AddEventTo(sp, "exception", o.a))
      [] o.op = "SetStatus" -> OnSpan(t, o.span, LAMBDA sp : SetStatusOn(sp, o.a, o.b))
      [] o.op = "End" -> EndSpan(t, o.span)
      [] o.op = "Write" -> Respond(t, o.a, o.b)

RECURSIVE Run(_, _, _, _)
Run(t, ops, sc, prov) ==
    IF ops = <<>> THEN t
    ELSE \* u is the task as it stands, evaluated once before the next statement
         CHOOSE r \in {Run(Exec(u, Head(ops), sc, prov), Tail(ops), sc, prov) : u \in {t}} :
             TRUE


(***************************************************************************)
(* Process startup: main() of each service, statement by statement.        *)
(***************************************************************************)
EntryVariants == {"user1", "app1", "golang", "part000", "hello"}
DownVariants == {"authn", "authz", "app2"}

NeedArgs(n) == [st |-> "NeedArgs", a |-> "", b |-> "", n |-> n]
SetURL(k) == [st |-> "SetURL", a |-> "", b |-> "", n |-> k]
SetBackend(k) == [st |-> "SetBackend", a |-> "", b |-> "", n |-> k]
NewExporter(kind, onfail) == [st |-> "NewExporter", a |-> kind, b |-> onfail, n |-> 0]
NewProvider(ctor, service) == [st |-> "NewProvider", a |-> ctor, b |-> service, n |-> 0]
Register == [st |-> "Register", a |-> "", b |-> "", n |-> 0]
Defer(f) == [st |-> "Defer", a |-> f, b |-> "", n |-> 0]
Route(path, handler) == [st |-> "Route", a |-> path, b |-> handler, n |-> 0]
Listen == [st |-> "Listen", a |-> "", b |-> "", n |-> 0]

\* a mutant of jaegerProvider: the provider is built and registered
\* before the exporter is
jaegerProviderRegistersFirst(service) ==
    <<NewProvider("jaegerProvider", service), Register, NewExporter("otlpgrpc", "fatal")>>

\* a mutant of jaegerProvider: a second provider is built and registered
jaegerProviderTwice(service) ==
    <<NewExporter("otlpgrpc", "fatal"), NewProvider("jaegerProvider", service), Register,
      NewProvider("jaegerProvider", service), Register>>

\* jaegerProvider: gRPC exporter (log.Fatalf on error), provider, registration
jaegerProvider(service) ==
    <<NewExporter("otlpgrpc", "fatal"), NewProvider("jaegerProvider", service), Register>>

\* opsrampProvider: the same steps under its own name
opsrampProvider(service) ==
    <<NewExporter("otlpgrpc", "fatal"), NewProvider("opsrampProvider", service), Register>>

\* newRelicProvider: HTTP exporter (panic on error), provider with the
\* environment's resource, registration
newRelicProvider ==
    <<NewExporter("otlphttp", "panic"), NewProvider("newRelicProvider", "env"), Register>>

\* a mutant of the switch: an unrecognized name selects newRelicProvider
selectProviderNewRelicDefault(backend, service) ==
    CASE backend = "jaeger" -> jaegerProvider(service)
      [] backend = "opsramp" -> opsrampProvider(service)
      [] OTHER -> newRelicProvider

\* switch TraceProvider { case "newrelic" ... default: jaegerProvider }
selectProvider(backend, service) ==
    CASE backend = "newrelic" -> newRelicProvider
      [] backend = "jaeger" -> jaegerProvider(service)
      [] backend = "opsramp" -> opsrampProvider(service)
      [] OTHER -> jaegerProvider(service)

\* the statements of main() before the provider is chosen
mainHead(v) ==
    CASE v = "app1" -> <<NeedArgs(2), SetURL(1), SetBackend(2)>>
      [] v = "app2" -> <<NeedArgs(2), SetBackend(1)>>
      [] OTHER -> <<>>

\* the statements of main() from the provider's construction on;
\* backend is the value main read into TraceProvider
mainTail(v, backend) ==
    CASE v = "user1" ->
           jaegerProvider("user-service")
             \o <<Defer("shutdownTraceProvider"), NeedArgs(2), SetURL(1),
                  Route("/users", "UserHandler"), Listen>>
      [] v = "app1" ->
           selectProvider(backend, "App1")
             \o <<Defer("shutdownTraceProvider"), Route("/", "HandlerLayer"), Listen>>
      [] v = "golang" ->
           newRelicProvider
             \o <<Defer("shutdownTraceProvider"), Route("/users", "UserHandler"), Listen>>
      [] v = "part000" ->
           jaegerProvider("User-Service")
             \o <<Defer("shutdownTraceProvider"), Route("/users", "UserHandler"), Listen>>
      [] v = "hello" ->
           <<NewExporter("otlpgrpc", "fatal"), NewProvider("initExporter", "ServiceA"),
             Register, Defer("exporter.Shutdown"), Route("/hello", "HelloHandler"), Listen>>
      [] v = "authn" ->
           <<NewExporter("otlpgrpc", "fatal"), Defer("exporter.Shutdown"),
             NewProvider("main", "authn-service"), Register,
             Route("/verify", "AuthnHandler"), Listen>>
      [] v = "authz" ->
           <<NewExporter("otlpgrpc", "fatal"), Defer("exporter.Shutdown"),
             NewProvider("main", "authz-service"), Register,
             Route("/verify", "AuthzHandler"), Listen>>
      [] v = "app2" ->
           selectProvider(backend, "App2")
             \o <<Defer("shutdownTraceProvider"), Route("/", "HandlerLayer"), Listen>>

NewProc(v, args) ==
    [variant |-> v, phase |-> "init", exit |-> 0, args |-> args, url |-> "",
     backend |-> "", exporter |-> "none", built |-> 0, provider |-> NoProvider,
     registrations |-> 0, deferred |-> <<>>, routes |-> {}, log |-> <<>>,
     shutdowns |-> 0]

\* a mutant of the process exit: the deferred calls of main run first, as
\* they would on a return
ExitedAfterDeferred(pr, code, why) ==
    [pr EXCEPT !.phase = "exited", !.exit = code,
               !.log = pr.log \o pr.deferred \o <<why>>,
               !.shutdowns = pr.shutdowns
                    + Cardinality({i \in 1..Len(pr.deferred) :
                                      pr.deferred[i] = "shutdownTraceProvider"})]

\* os.Exit, log.Fatal, log.Fatalf: the process ends with the exit status
\* code, no deferred call runs
Exited(pr, code, why) ==
    [pr EXCEPT !.phase = "exited", !.exit = code, !.log = Append(pr.log, why)]

\* the deferred calls fs of main run, last deferred first, each noted in
\* the log; shutdownTraceProvider calls tp.Shutdown
RECURSIVE RunDeferred(_, _)
RunDeferred(pr, fs) ==
    IF fs = <<>> THEN pr
    ELSE RunDeferred([pr EXCEPT !.log = Append(pr.log, Head(fs)),
                                !.shutdowns = IF Head(fs) = "shutdownTraceProvider"
                                              THEN pr.shutdowns + 1 ELSE pr.shutdowns],
                     Tail(fs))

\* a panic in main: the deferred calls run, then the process ends with
\* exit status 2
Panicked(pr, why) == Exited(RunDeferred(pr, pr.deferred), 2, why)

\* one statement of main(); exporterOK and listenOK are the environment's
\* answers to the exporter's construction and to binding the port.
\* os.Exit and log.Fatalf leave at once (exit status 1); a panic leaves
\* with exit status 2.
ExecMain(pr, s, exporterOK, listenOK) ==
    CASE s.st = "NeedArgs" ->
           \* len(os.Args) < n, os.Args[0] being the program name
           IF Len(pr.args) + 1 < s.n THEN Exited(pr, 1, "os.Exit") ELSE pr
      [] s.st = "SetURL" -> [pr EXCEPT !.url = pr.args[s.n]]
      [] s.st = "SetBackend" ->
           IF Len(pr.args) < s.n THEN Panicked(pr, "panic: index out of range")
           ELSE [pr EXCEPT !.backend = pr.args[s.n]]
      [] s.st = "NewExporter" ->
           IF exporterOK THEN [pr EXCEPT !.exporter = s.a, !.log = Append(pr.log, "exporter")]
           ELSE IF s.b = "fatal" THEN Exited(pr, 1, "log.Fatalf")
           ELSE Panicked(pr, "panic")
      [] s.st = "NewProvider" ->
           [pr EXCEPT !.built = pr.built + 1,
                      !.provider = [ctor |-> s.a, exporter |-> pr.exporter, service |-> s.b],
                      !.log = Append(pr.log, "provider")]
      [] s.st = "Register" ->
           [pr EXCEPT !.registrations = pr.registrations + 1,
                      !.log = Append(pr.log, "SetTracerProvider")]
      [] s.st = "Defer" -> [pr EXCEPT !.deferred = <<s.a>> \o pr.deferred]
      [] s.st = "Route" ->
           [pr EXCEPT !.routes = pr.routes \cup {<<s.a, s.b>>},
                      !.log = Append(pr.log, "route")]
      [] s.st = "Listen" ->
           IF listenOK THEN [pr EXCEPT !.phase = "serving", !.log = Append(pr.log, "listen")]
           ELSE Exited(pr, 1, "log.Fatalf")

RECURSIVE RunMain(_, _, _, _)
RunMain(pr, stmts, exporterOK, listenOK) ==
    IF stmts = <<>> \/ pr.phase = "exited" THEN pr
    ELSE RunMain(ExecMain(pr, Head(stmts), exporterOK, listenOK), Tail(stmts),
                 exporterOK, listenOK)

\* main() up to the point where it blocks in http.ListenAndServe or exits
main(pr, exporterOK, listenOK) ==
    LET h == RunMain(pr, mainHead(pr.variant), exporterOK, listenOK)
    IN RunMain(h, mainTail(pr.variant, h.backend), exporterOK, listenOK)


(***************************************************************************)
(* HTTP values.                                                            *)
(***************************************************************************)
URLVerify == "http://localhost:5001/verify"
URLRoot == "http://localhost:5001/"
\* a string url.Parse rejects, so that http.NewRequestWithContext returns nil
URLBad == ":5001"

URLParses(u) == u \in {URLVerify, URLRoot}
PathOf(u) == IF u = URLVerify THEN "/verify" ELSE "/"

NoHeaders == [TraceID |-> <<>>, SpanID |-> <<>>]

JSON(fields) == [kind |-> "json", fields |-> fields]
Text(msg) == [kind |-> "text", fields |-> {<<"text", msg>>}]
NoBody == [kind |-> "none", fields |-> {}]

(***************************************************************************)
(* The entry handlers.  Span names per variant.                            *)
(***************************************************************************)
HName(v) == IF v = "app1" THEN "App1-HandlerLayer" ELSE IF v = "hello" THEN "" ELSE "UserHandler"
SName(v) == IF v = "app1" THEN "App1-ServiceLayer" ELSE "UserService"
DName(v) == CASE v = "app1" -> "App1-DatabaseLayer"
              [] v = "golang" -> "DB-Transactions"
              [] OTHER -> "UserDatabase"

\* a mutant of the user-data step: the map comes back empty
UserMapEmpty(v) == JSON({})

\* the fixed user map UserDatabase / Database returns
UserMap(v) ==
    IF v = "part000" THEN JSON({<<"user1", "chandan">>, <<"user2", "saurabh">>})
    ELSE JSON({<<"user1", "hpe-user1">>, <<"user2", "hpe-user2">>})

\* the rows UserDatabase of the database variant read back
DBRows == JSON({<<"Sheru1", "sheru@example.com">>})

\* the handler from its first line to the outbound http.DefaultClient.Do
EntryStart(v) ==
    CASE v = "user1" ->
           <<Start("UserHandler", ""),
             AddEvent("UserHandler", "Got a request to get users"),
             SetAttributes("UserHandler", "http.method", "GET"),
             SetAttributes("UserHandler", "http.url", "/users"),
             SetAttributes("UserHandler", "service.name", "user-service"),
             Start("UserService", "UserHandler"),
             AddEvent("UserService", "Calling authn service")>>
      [] v = "app1" ->
           <<Start("App1-HandlerLayer", ""),
             AddEvent("App1-HandlerLayer", "Got a get request"),
             SetAttributes("App1-HandlerLayer", "http.method", "GET"),
             SetAttributes("App1-HandlerLayer", "service.name", "App1"),
             Start("App1-ServiceLayer", "App1-HandlerLayer"),
             AddEvent("App1-ServiceLayer", "Calling app2 service")>>
      [] v \in {"golang", "part000"} ->
           <<Start("UserHandler", ""),
             AddEvent("UserHandler", "handling get /users request")>>
      [] v = "hello" ->
           \* trace.SpanFromContext(c): no span in the context, the no-op span
           <<AddEvent("", "handling the request")>>

\* the URL of the outbound call
TargetURL(v, url) ==
    CASE v \in {"user1", "app1"} -> url
      [] v \in {"golang", "part000"} -> URLVerify
      [] v = "hello" -> URLRoot

\* a mutant of the header injection: the SpanID header is left out
OutHeadersNoSpan(v, t) ==
    CASE v \in {"user1", "app1"} ->
           [TraceID |-> IDString(CtxOf(t, SName(v)).trace), SpanID |-> <<>>]
      [] v = "part000" ->
           [TraceID |-> IDString(CtxOf(t, "UserHandler").trace), SpanID |-> <<>>]
      [] OTHER -> NoHeaders

\* req.Header.Set("TraceID", ...), req.Header.Set("SpanID", ...): the
\* identifiers of trace.SpanFromContext(ctx), where the variant sets them
OutHeaders(v, t) ==
    CASE v \in {"user1", "app1"} ->
           [TraceID |-> IDString(CtxOf(t, SName(v)).trace),
            SpanID |-> IDString(CtxOf(t, SName(v)).span)]
      [] v = "part000" ->
           [TraceID |-> IDString(CtxOf(t, "UserHandler").trace),
            SpanID |-> IDString(CtxOf(t, "UserHandler").span)]
      [] OTHER -> NoHeaders

\* a panic in the handler: the deferred span.End calls run innermost
\* first, then gin's recovery middleware answers 500
EntryOnPanic(v, open) ==
    [i \in 1..Len(open) |-> End(open[Len(open) + 1 - i])] \o <<Write(500, NoBody)>>

\* a mutant of the error path: the handler answers 200
EntryOnNetErrOK(v) ==
    <<RecordError(HName(v), "network error"), Write(200, NoBody), End(HName(v))>>

\* http.DefaultClient.Do returned an error
EntryOnNetErr(v) ==
    CASE v = "user1" ->
           <<RecordError("UserService", "Failed to call authz service"),
             SetAttributes("UserService", "http.status_code", "500"),
             SetStatus("UserService", "Error", "Failed to call authz service"),
             End("UserService"),
             RecordError("UserHandler", "network error"),
             SetAttributes("UserHandler", "http.status_code", "500"),
             Write(500, JSON({<<"error", "Error calling authn service">>})),
             End("UserHandler")>>
      [] v = "app1" ->
           <<RecordError("App1-ServiceLayer", "Failed to call app2 service"),
             SetAttributes("App1-ServiceLayer", "http.status_code", "500"),
             SetStatus("App1-ServiceLayer", "Error", "Failed to call app2 service"),
             End("App1-ServiceLayer"),
             RecordError("App1-HandlerLayer", "network error"),
             SetAttributes("App1-HandlerLayer", "http.status_code", "500"),
             Write(500, JSON({<<"error", "Error calling app2 service">>})),
             End("App1-HandlerLayer")>>
      [] v \in {"golang", "part000"} ->
           <<RecordError("UserHandler", "network error"),
             Write(500, Text("Error calling authz service")),
             End("UserHandler")>>
      [] v = "hello" ->
           <<RecordError("", "network error"),
             Write(500, Text("Error calling Service A")),
             End("")>>

\* a mutant of the status test: no variant looks at resp.StatusCode
ChecksStatusNever(v) == FALSE

\* whether the variant tests resp.StatusCode != http.StatusOK
ChecksStatus(v) == v \in {"user1", "app1"}

\* a mutant of the rejection: the handler hands the 400 of its service
\* layer on to the client
EntryOnBadStatusPassesOn(v) ==
    <<RecordError(SName(v), "Invalid Request"),
      SetAttributes(SName(v), "http.status_code", "400"),
      SetStatus(SName(v), "Error", "Invalid Request"),
      End(SName(v)),
      RecordError(HName(v), "Invalid Request"),
      SetAttributes(HName(v), "http.status_code", "400"),
      Write(400, JSON({<<"error", "Invalid Request">>})),
      End(HName(v))>>

\* the downstream answered with a status the handler rejects
EntryOnBadStatus(v) ==
    CASE v = "user1" ->
           <<RecordError("UserService", "Invalid Request"),
             SetAttributes("UserService", "http.status_code", "400"),
             SetStatus("UserService", "Error", "Invalid Request"),
             End("UserService"),
             RecordError("UserHandler", "Invalid Request"),
             SetAttributes("UserHandler", "http.status_code", "500"),
             Write(500, JSON({<<"error", "Error calling authn service">>})),
             End("UserHandler")>>
      [] v = "app1" ->
           <<RecordError("App1-ServiceLayer", "Invalid Request"),
             SetAttributes("App1-ServiceLayer", "http.status_code", "400"),
             SetStatus("App1-ServiceLayer", "Error", "Invalid Request"),
             End("App1-ServiceLayer"),
             RecordError("App1-HandlerLayer", "Invalid Request"),
             SetAttributes("App1-HandlerLayer", "http.status_code", "500"),
             Write(500, JSON({<<"error", "Error calling app2 service">>})),
             End("App1-HandlerLayer")>>

\* the downstream answered and the handler goes on: up to the point where
\* the user-data step blocks (the sleep, the database), or to the end
EntryOnResponse(v) ==
    CASE v = "user1" ->
           <<AddEvent("UserService", "Successfully verified the request from authn service"),
             Start("UserDatabase", "UserService"),
             AddEvent("UserDatabase", "Fetching user details from database")>>
      [] v = "app1" ->
           <<Start("App1-DatabaseLayer", "App1-ServiceLayer"),
             AddEvent("App1-DatabaseLayer", "Fetching records from database")>>
      [] v = "golang" ->
           <<SetAttributes("UserHandler", "http.method", "GET"),
             Start("UserService", "UserHandler"),
             AddEvent("UserService", "user verification done"),
             \* tracer.Start(context.Background(), "DB-Transactions")
             Start("DB-Transactions", "")>>
      [] v = "part000" ->
           <<SetAttributes("UserHandler", "http.method", "GET"),
             Start("UserService", "UserHandler"),
             AddEvent("UserService", "user verification done"),
             Start("UserDatabase", "UserService"),
             AddEvent("UserDatabase", "user fetch done"),
             End("UserDatabase"),
             End("UserService"),
             AddEvent("UserHandler", "getting user details"),
             Write(200, UserMap(v)),
             End("UserHandler")>>
      [] v = "hello" ->
           <<Write(200, Text("Hello, World!")), End("")>>

\* whether the handler blocks in its user-data step after the response
BlocksInData(v) == v \in {"user1", "app1", "golang"}

\* the user-data step returned: the rest of the handler
EntryOnData(v) ==
    CASE v = "user1" ->
           <<AddEvent("UserDatabase", "Successfully fetched user details from database"),
             End("UserDatabase"),
             End("UserService"),
             AddEvent("UserHandler", "Successfully verfied the request from authn service"),
             AddEvent("UserHandler", "user details fetched"),
             SetStatus("UserHandler", "Ok", "User details fetched successfully"),
             Write(200, UserMap(v)),
             End("UserHandler")>>
      [] v = "app1" ->
           <<AddEvent("App1-DatabaseLayer", "Successfully fetched records from database"),
             End("App1-DatabaseLayer"),
             End("App1-ServiceLayer"),
             AddEvent("App1-HandlerLayer", "Successfully processed the request in app1"),
             AddEvent("App1-HandlerLayer", "Successfully fetched records"),
             SetStatus("App1-HandlerLayer", "Ok", "Successfully fetched records"),
             Write(200, UserMap(v)),
             End("App1-HandlerLayer")>>
      [] v = "golang" ->
           <<AddEvent("DB-Transactions", "user fetch done"),
             End("DB-Transactions"),
             End("UserService"),
             AddEvent("UserHandler", "getting user details"),
             Write(200, DBRows),
             End("UserHandler")>>

\* what the database answers in the database variant: every statement
\* succeeds, or BeginTx, Exec, Query or Commit fails
DBOutcomes == {"ok", "begin_fail", "exec_fail", "query_fail", "commit_fail"}

\* a mutant of UserDatabase: a failed BeginTx or Commit is only logged
DBEffectLogOnly(outcome) ==
    IF outcome = "query_fail" THEN "panic" ELSE "continue"

\* UserDatabase: log.Fatal on a failed BeginTx or Commit, log.Printf on a
\* failed Exec, and after a failed Query rows is nil and rows.Next() panics
DBEffect(outcome) ==
    CASE outcome \in {"begin_fail", "commit_fail"} -> "fatal"
      [] outcome = "query_fail" -> "panic"
      [] OTHER -> "continue"


(***************************************************************************)
(* The downstream handlers.                                                *)
(***************************************************************************)
\* the handler the variant registers, and its path
DownRoute(d) == IF d = "app2" THEN "/" ELSE "/verify"

DownHName(d) ==
    CASE d = "authn" -> "AuthnHandler"
      [] d = "authz" -> "AuthzHandler"
      [] d = "app2" -> "App2-HandlerLayer"

\* a mutant of the reconstruction: the parsed trace identifier is dropped
RemoteCtxNoTrace(hdr) ==
    [trace |-> ZeroID(TraceIDSize), span |-> IDFromHex(hdr.SpanID, SpanIDSize),
     remote |-> TRUE, sampled |-> TRUE]

\* tID, _ := trace.TraceIDFromHex(traceID); sID, _ := trace.SpanIDFromHex(spanID);
\* trace.NewSpanContext({TraceID: tID, SpanID: sID, TraceFlags: FlagsSampled, Remote: true})
RemoteCtx(hdr) ==
    [trace |-> IDFromHex(hdr.TraceID, TraceIDSize),
     span |-> IDFromHex(hdr.SpanID, SpanIDSize),
     remote |-> TRUE, sampled |-> TRUE]

\* the handler from its first line to its return, or to the sleep of
\* app2's ServiceLayer
DownStart(d) ==
    CASE d = "authn" ->
           <<StartRemote("AuthnHandler"),
             AddEvent("AuthnHandler", "Got a request to verify the request in authn-service"),
             SetAttributes("AuthnHandler", "http.method", "GET"),
             SetAttributes("AuthnHandler", "http.url", "/users"),
             SetAttributes("AuthnHandler", "service.name", "authn-service"),
             AddEvent("AuthnHandler", "Succefully verified the request in authn-service"),
             Write(200, JSON({})),
             End("AuthnHandler")>>
      [] d = "authz" ->
           <<StartRemote("AuthzHandler"),
             AddEvent("AuthzHandler", "handling the /verify request in authz-service"),
             SetAttributes("AuthzHandler", "http.method", "GET"),
             AddEvent("AuthzHandler", "verified the request in authz-service"),
             SetAttributes("AuthzHandler", "service.name", "authz-service"),
             Write(200, Text("user verified successfully!")),
             End("AuthzHandler")>>
      [] d = "app2" ->
           <<StartRemote("App2-HandlerLayer"),
             AddEvent("App2-HandlerLayer", "Got a request in app2 service"),
             AddEvent("App2-HandlerLayer", "Calling service layer"),
             Start("App2-ServiceLayer", "App2-HandlerLayer"),
             AddEvent("App2-ServiceLayer", "Got a request in service layer")>>

\* whether the handler blocks (time.Sleep in ServiceLayer)
DownBlocks(d) == d = "app2"

\* a mutant of app2 after the sleep: the ServiceLayer span is ended
\* before its last event is added
DownOnWakeEndsFirst(d) ==
    <<End("App2-ServiceLayer"),
      AddEvent("App2-ServiceLayer", "Calling database layer"),
      SetAttributes("App2-HandlerLayer", "http.method", "GET"),
      SetAttributes("App2-HandlerLayer", "service.name", "App2"),
      Write(200, JSON({})),
      End("App2-HandlerLayer")>>

\* a mutant of app2 after the sleep: the response is written before
\* ServiceLayer has returned
DownOnWakeWritesFirst(d) ==
    <<AddEvent("App2-ServiceLayer", "Calling database layer"),
      SetAttributes("App2-HandlerLayer", "http.method", "GET"),
      SetAttributes("App2-HandlerLayer", "service.name", "App2"),
      Write(200, JSON({})),
      End("App2-ServiceLayer"),
      End("App2-HandlerLayer")>>

\* app2 after the sleep along the branch DatabaseLayer never takes: it
\* returns an error, ServiceLayer records it on its own span and returns
\* it, HandlerLayer logs it
DownOnWakeErr(d) ==
    <<AddEvent("App2-ServiceLayer", "Calling database layer"),
      RecordError("App2-ServiceLayer", "database error"),
      SetAttributes("App2-ServiceLayer", "http.status_code", "500"),
      SetStatus("App2-ServiceLayer", "Error", "database error"),
      End("App2-ServiceLayer"),
      SetAttributes("App2-HandlerLayer", "http.method", "GET"),
      SetAttributes("App2-HandlerLayer", "service.name", "App2"),
      Write(200, JSON({})),
      End("App2-HandlerLayer")>>

\* app2 after the sleep: DatabaseLayer returns no error
DownOnWake(d) ==
    <<AddEvent("App2-ServiceLayer", "Calling database layer"),
      End("App2-ServiceLayer"),
      SetAttributes("App2-HandlerLayer", "http.method", "GET"),
      SetAttributes("App2-HandlerLayer", "service.name", "App2"),
      Write(200, JSON({})),
      End("App2-HandlerLayer")>>

(***************************************************************************)
(* Inputs.                                                                 *)
(***************************************************************************)
Slots == 1..MaxSlots
\* the seeds of the entry process's identifier source and, apart from
\* them, those of the downstream process's
Seeds == 0..(NumSeeds - 1)
DownSeeds == NumSeeds..(2 * NumSeeds - 1)

Backends == {"jaeger", "newrelic", "opsramp", "zipkin"}
Recognized == {"jaeger", "newrelic", "opsramp"}

\* the command lines a variant is started with (os.Args[1:])
ArgsOf(v) ==
    CASE v = "user1" -> {<<>>, <<URLVerify>>, <<URLRoot>>, <<URLBad>>}
      [] v = "app1" -> {<<>>, <<URLRoot>>, <<URLVerify, "jaeger">>, <<URLBad, "jaeger">>}
                          \cup {<<URLRoot, b>> : b \in Backends}
      [] v = "app2" -> {<<>>} \cup {<<b>> : b \in Backends}
      [] OTHER -> {<<>>}

\* header values a client may send to a downstream handler directly:
\* well-formed ones and the malformed shapes
ClientTrace == NewTraceID(7, 0)
ClientSpan == NewSpanID(7, 1)
GoodTraceHex == IDString(ClientTrace)
GoodSpanHex == IDString(ClientSpan)

Malformed(h) ==
    {<<>>, SubSeq(h, 1, Len(h) - 1), h \o <<"0">>,
     [h EXCEPT ![1] = "g"], [h EXCEPT ![Len(h)] = "A"],
     [k \in 1..Len(h) |-> "0"]}

\* one header well-formed and the other in each malformed shape, both
\* well-formed, both absent, both malformed
ClientHeaders ==
    {[TraceID |-> GoodTraceHex, SpanID |-> GoodSpanHex], NoHeaders,
     [TraceID |-> [GoodTraceHex EXCEPT ![1] = "g"], SpanID |-> SubSeq(GoodSpanHex, 1, 3)]}
    \cup {[TraceID |-> a, SpanID |-> GoodSpanHex] : a \in Malformed(GoodTraceHex)}
    \cup {[TraceID |-> GoodTraceHex, SpanID |-> b] : b \in Malformed(GoodSpanHex)}

\* the requests a client sends to a downstream service directly: any of
\* these headers on either path
ClientRequests ==
    {[path |-> DownPath, hdr |-> h] : DownPath \in {"/verify", "/"}, h \in ClientHeaders}

\* headers on the request the entry service receives (it reads none)
InboundHeaders == {NoHeaders, [TraceID |-> GoodTraceHex, SpanID |-> GoodSpanHex]}

\* which services run together: an entry service with what listens on
\* :5001, or a downstream service alone with a client calling it
Pairs ==
    {<<"user1", "authn">>, <<"app1", "app2">>, <<"golang", "authz">>,
     <<"part000", "authz">>, <<"part000", "app2">>,
     <<"hello", "app2">>, <<"hello", "authn">>}
    \cup {<<"none", d>> : d \in DownVariants}

\* a deployment handling up to n requests at once
Deployments(n) == {[entry |-> pr[1], down |-> pr[2], slots |-> n] : pr \in Pairs}

IdleReq == [pc |-> "idle", inbound |-> NoHeaders, task |-> NewTask(0), attempts |-> 0]
NoCall == [pc |-> "none", path |-> "", hdr |-> NoHeaders, sc |-> NoCtx, task |-> NewTask(0)]

(***************************************************************************)
(* The state machine.                                                      *)
(***************************************************************************)
InitWith(n) ==
    /\ cfg \in Deployments(n)
    /\ \E ea \in ArgsOf(cfg.entry), da \in ArgsOf(cfg.down) :
          proc = [p \in {"entry", "down"} |->
                     IF p = "entry"
                     THEN (IF cfg.entry = "none"
                           THEN [NewProc("none", <<>>) EXCEPT !.phase = "absent"]
                           ELSE NewProc(cfg.entry, ea))
                     ELSE NewProc(cfg.down, da)]
    /\ req = [s \in Slots |-> IdleReq]
    /\ call = [s \in Slots |-> NoCall]

\* every deployment, its requests handled one after the other
Init == InitWith(1)

\* main() of process p runs up to ListenAndServe or to its exit
StartProc(p) ==
    /\ proc[p].phase = "init"
    /\ \E exporterOK \in BOOLEAN, listenOK \in BOOLEAN :
          proc' = [proc EXCEPT ![p] = main(proc[p], exporterOK, listenOK)]
    /\ UNCHANGED <<cfg, req, call>>

\* http.ListenAndServe returns an error while serving: log.Fatalf ends
\* the process and whatever its handlers were doing
ServerStop(p) ==
    /\ proc[p].phase = "serving"
    /\ proc' = [proc EXCEPT ![p] = Exited(proc[p], 1, "log.Fatalf")]
    /\ IF p = "entry"
       THEN /\ req' = [s \in Slots |->
                         IF req[s].pc \in {"calling", "data"}
                         THEN [req[s] EXCEPT !.pc = "killed"] ELSE req[s]]
            /\ call' = call
       ELSE /\ call' = [s \in Slots |->
                         IF call[s].pc = "sleep"
                         THEN [call[s] EXCEPT !.pc = "failed"] ELSE call[s]]
            /\ req' = req
    /\ UNCHANGED cfg

\* the entry handler is invoked and runs up to its outbound call
Receive(s) ==
    /\ proc["entry"].phase = "serving"
    /\ req[s].pc = "idle"
    /\ s <= cfg.slots
    /\ \E seed \in Seeds, inb \in InboundHeaders :
          LET v == cfg.entry
              t == Run(NewTask(seed), EntryStart(v), NoCtx, proc["entry"].provider)
              url == TargetURL(v, proc["entry"].url)
              open == [i \in 1..Len(t.spans) |-> t.spans[i].name]
          IN IF URLParses(url)
             THEN /\ req' = [req EXCEPT ![s] = [pc |-> "calling", inbound |-> inb,
                                                task |-> t, attempts |-> 1]]
                  /\ call' = [call EXCEPT ![s] = [pc |-> "sent", path |-> PathOf(url),
                                                  hdr |-> OutHeaders(v, t),
                                                  sc |-> NoCtx, task |-> NewTask(0)]]
             ELSE \* req is nil and req.WithContext(ctx) panics
                  /\ req' = [req EXCEPT ![s] =
                                [pc |-> "done", inbound |-> inb,
                                 task |-> Run(t, EntryOnPanic(v, open), NoCtx,
                                              proc["entry"].provider),
                                 attempts |-> 0]]
                  /\ call' = call
    /\ UNCHANGED <<cfg, proc>>

\* a client calls the downstream service directly
ClientCall(s) ==
    /\ cfg.entry = "none"
    /\ call[s].pc = "none"
    /\ s <= cfg.slots
    /\ \E r \in ClientRequests :
          call' = [call EXCEPT ![s] = [pc |-> "sent", path |-> r.path, hdr |-> r.hdr,
                                       sc |-> NoCtx, task |-> NewTask(0)]]
    /\ UNCHANGED <<cfg, proc, req>>

\* the call fails in the network (or nothing listens on :5001)
NetError(s) ==
    /\ call[s].pc = "sent"
    /\ call' = [call EXCEPT ![s].pc = "failed"]
    /\ UNCHANGED <<cfg, proc, req>>

\* the downstream router takes the request: 404 when no route matches,
\* else the handler runs to its return or to its sleep
Deliver(s) ==
    /\ call[s].pc = "sent"
    /\ proc["down"].phase = "serving"
    /\ \E seed \in DownSeeds :
          LET d == cfg.down
              sc == RemoteCtx(call[s].hdr)
          IN IF call[s].path # DownRoute(d)
             THEN call' = [call EXCEPT ![s].pc = "responded",
                                       ![s].task = Respond(NewTask(seed), 404, Text("404 page not found"))]
             ELSE call' = [call EXCEPT
                             ![s].pc = IF DownBlocks(d) THEN "sleep" ELSE "responded",
                             ![s].sc = sc,
                             ![s].task = Run(NewTask(seed), DownStart(d), sc,
                                             proc["down"].provider)]
    /\ UNCHANGED <<cfg, proc, req>>

\* the downstream handler's sleep ends and it runs to its return
DownWake(s) ==
    /\ call[s].pc = "sleep"
    /\ proc["down"].phase = "serving"
    /\ call' = [call EXCEPT ![s].pc = "responded",
                            ![s].task = Run(call[s].task, DownOnWake(cfg.down),
                                            call[s].sc, proc["down"].provider)]
    /\ UNCHANGED <<cfg, proc, req>>

\* the client that called the downstream directly has its answer
ClientDone(s) ==
    /\ cfg.entry = "none"
    /\ call[s].pc \in {"failed", "responded"}
    /\ call' = [call EXCEPT ![s] = NoCall]
    /\ UNCHANGED <<cfg, proc, req>>

\* http.DefaultClient.Do returns in the entry handler
Return(s) ==
    /\ proc["entry"].phase = "serving"
    /\ req[s].pc = "calling"
    /\ call[s].pc \in {"failed", "responded"}
    /\ LET v == cfg.entry
           ops == IF call[s].pc = "failed" THEN EntryOnNetErr(v)
                  ELSE IF ChecksStatus(v) /\ call[s].task.resp.status # 200
                       THEN EntryOnBadStatus(v)
                       ELSE EntryOnResponse(v)
           goesOn == /\ call[s].pc = "responded"
                     /\ ~(ChecksStatus(v) /\ call[s].task.resp.status # 200)
                     /\ BlocksInData(v)
       IN req' = [req EXCEPT ![s].pc = IF goesOn THEN "data" ELSE "done",
                             ![s].task = Run(req[s].task, ops, NoCtx, proc["entry"].provider)]
    /\ UNCHANGED <<cfg, proc, call>>

\* the user-data step of the entry handler returns: the sleep ends, or
\* the database answers
Data(s) ==
    /\ proc["entry"].phase = "serving"
    /\ req[s].pc = "data"
    /\ \E outcome \in (IF cfg.entry = "golang" THEN DBOutcomes ELSE {"ok"}) :
          LET v == cfg.entry
              t == req[s].task
              open == <<DName(v), SName(v), HName(v)>>
          IN CASE DBEffect(outcome) = "continue" ->
                    /\ req' = [req EXCEPT ![s].pc = "done",
                                          ![s].task = Run(t, EntryOnData(v), NoCtx,
                                                          proc["entry"].provider)]
                    /\ proc' = proc
               [] DBEffect(outcome) = "panic" ->
                    /\ req' = [req EXCEPT ![s].pc = "done",
                                          ![s].task = Run(t, EntryOnPanic(v, <<HName(v), SName(v), DName(v)>>),
                                                          NoCtx, proc["entry"].provider)]
                    /\ proc' = proc
               [] DBEffect(outcome) = "fatal" ->
                    \* log.Fatal: os.Exit(1), no deferred call runs
                    /\ req' = [r \in Slots |->
                                 IF r = s THEN [req[r] EXCEPT !.pc = "fatal"]
                                 ELSE IF req[r].pc \in {"calling", "data"}
                                      THEN [req[r] EXCEPT !.pc = "killed"] ELSE req[r]]
                    /\ proc' = [proc EXCEPT !["entry"] = Exited(proc["entry"], 1, "log.Fatal")]
    /\ UNCHANGED <<cfg, call>>

\* the response has gone to the client; the slot takes the next request
Recycle(s) ==
    /\ req[s].pc = "done"
    /\ req' = [req EXCEPT ![s] = IdleReq]
    /\ call' = [call EXCEPT ![s] = NoCall]
    /\ UNCHANGED <<cfg, proc>>

Next ==
    \/ \E p \in {"entry", "down"} : StartProc(p)
    \/ \E p \in {"entry", "down"} : ServerStop(p)
    \/ \E s \in Slots : Receive(s)
    \/ \E s \in Slots : ClientCall(s)
    \/ \E s \in Slots : NetError(s)
    \/ \E s \in Slots : Deliver(s)
    \/ \E s \in Slots : DownWake(s)
    \/ \E s \in Slots : ClientDone(s)
    \/ \E s \in Slots : Return(s)
    \/ \E s \in Slots : Data(s)
    \/ \E s \in Slots : Recycle(s)

Spec == Init /\ [][Next]_vars


(***************************************************************************)
(* Properties.                                                             *)
(***************************************************************************)
\* the downstream handler was invoked for the call of slot s
HandlerRan(s) == Len(call[s].task.spans) >= 1

\* the variants that write the TraceID and SpanID headers
Injecting == {"user1", "app1", "part000"}

\* the span trace.SpanFromContext(ctx) yields where the outbound request is built
CallerSpan(v) ==
    CASE v \in {"user1", "app1"} -> SName(v)
      [] v \in {"golang", "part000"} -> "UserHandler"
      [] OTHER -> ""

AllEndedOnce(t) == \A i \in 1..Len(t.spans) : t.spans[i].ends = 1

\* C1: every span a handler started has been ended exactly once when the
\* function that started it has left, on whichever path: the entry
\* handler returned, panicked into the recovery middleware or ended the
\* process; the downstream handler answered.
C1_EverySpanEndedOnce ==
    \A s \in Slots :
        /\ req[s].pc \in {"done", "fatal"} => AllEndedOnce(req[s].task)
        /\ call[s].pc = "responded" => AllEndedOnce(call[s].task)

\* C2: the span context the downstream handler reconstructs from the
\* headers the caller wrote carries the caller's trace identifier and span
\* identifier, and is marked sampled and remote; likewise for the
\* well-formed identifiers a client sends directly.
C2_RoundTrip ==
    \A s \in Slots :
        /\ (cfg.entry \in Injecting /\ HandlerRan(s)) =>
              LET a == CtxOf(req[s].task, CallerSpan(cfg.entry))
              IN /\ IsValid(a.trace) /\ IsValid(a.span)
                 /\ call[s].sc = [trace |-> a.trace, span |-> a.span,
                                  remote |-> TRUE, sampled |-> TRUE]
        /\ (cfg.entry = "none" /\ HandlerRan(s)
              /\ call[s].hdr = [TraceID |-> GoodTraceHex, SpanID |-> GoodSpanHex]) =>
              call[s].sc = [trace |-> ClientTrace, span |-> ClientSpan,
                            remote |-> TRUE, sampled |-> TRUE]

C2_Witness ==
    \E s \in Slots :
        /\ cfg.entry = "user1" /\ HandlerRan(s)
        /\ call[s].sc.trace = req[s].task.spans[2].trace
        /\ call[s].sc.span = req[s].task.spans[2].id
        /\ IsValid(call[s].sc.trace)

\* C3: when the call of a header-writing entry service reaches the
\* downstream handler, every span of the request in both processes has
\* the trace identifier of the entry handler's span, and the downstream
\* handler's span has as its (remote) parent the span whose identifier
\* went out in the SpanID header.
C3_TraceContinuity ==
    \A s \in Slots :
        (cfg.entry \in Injecting /\ HandlerRan(s)) =>
            LET et == req[s].task
                dt == call[s].task
                caller == CtxOf(et, CallerSpan(cfg.entry))
            IN /\ \A i \in 1..Len(et.spans) : et.spans[i].trace = et.spans[1].trace
               /\ \A i \in 1..Len(dt.spans) : dt.spans[i].trace = et.spans[1].trace
               /\ dt.spans[1].parent = caller.span
               /\ dt.spans[1].parentRemote
               /\ call[s].hdr.SpanID = IDString(dt.spans[1].parent)
               /\ \A i \in 1..Len(et.spans) :
                     i > 1 => \E j \in 1..(i - 1) : et.spans[i].parent = et.spans[j].id

C3_Witness ==
    \E s \in Slots :
        /\ cfg.entry = "user1" /\ req[s].pc = "done" /\ HandlerRan(s)
        /\ Len(req[s].task.spans) = 3
        /\ req[s].task.spans[3].name = "UserDatabase"
        /\ call[s].task.spans[1].name = "AuthnHandler"
        /\ call[s].task.spans[1].trace = req[s].task.spans[3].trace

\* C4: every request an entry handler sends to the next hop carries the
\* TraceID header, the 32 lower-case hex digits of the active span's trace
\* identifier, and the SpanID header, the 16 digits of its span identifier.
C4_HeadersOnEveryCall ==
    \A s \in Slots :
        (cfg.entry # "none" /\ call[s].pc # "none") =>
            LET a == CtxOf(req[s].task, CallerSpan(cfg.entry))
            IN /\ Len(call[s].hdr.TraceID) = 2 * TraceIDSize
               /\ Len(call[s].hdr.SpanID) = 2 * SpanIDSize
               /\ call[s].hdr.TraceID = IDString(a.trace)
               /\ call[s].hdr.SpanID = IDString(a.span)

\* the trace the caller of slot s's call is in
CallerTrace(s) ==
    IF cfg.entry = "none" THEN ClientTrace
    ELSE IF Len(req[s].task.spans) >= 1 THEN req[s].task.spans[1].trace
    ELSE ZeroID(TraceIDSize)

TraceErr(s) == IDFromHexErr(call[s].hdr.TraceID, TraceIDSize)
SpanErr(s) == IDFromHexErr(call[s].hdr.SpanID, SpanIDSize)

\* what holds of every malformed or missing header, whichever it is: no
\* crash and no error (the handler answers 200), the identifier that
\* failed to parse is zero in the span context, the span is started and
\* ended
DegradesQuietly(s) ==
    /\ TraceErr(s) => call[s].sc.trace = ZeroID(TraceIDSize)
    /\ SpanErr(s) => call[s].sc.span = ZeroID(SpanIDSize)
    /\ call[s].task.spans[1].name = DownHName(cfg.down)
    /\ call[s].pc = "responded" =>
          /\ call[s].task.resp.status = 200
          /\ call[s].task.writes = 1
          /\ AllEndedOnce(call[s].task)

\* C5 as stated: for every malformed or missing TraceID or SpanID header
\* the handler degrades quietly and its span is detached from the
\* caller's trace.
C5_MalformedDetached ==
    \A s \in Slots :
        (HandlerRan(s) /\ (TraceErr(s) \/ SpanErr(s))) =>
            /\ DegradesQuietly(s)
            /\ call[s].task.spans[1].trace # CallerTrace(s)

\* C5 amended: the handler degrades quietly for every malformed or missing
\* header; its span is detached from the caller's trace (a new trace
\* identifier) when the TraceID header fails to parse, and when only the
\* SpanID header fails the span keeps the trace identifier of the TraceID
\* header with a zero parent span identifier.
C5_MalformedDegrades ==
    \A s \in Slots :
        (HandlerRan(s) /\ (TraceErr(s) \/ SpanErr(s))) =>
            /\ DegradesQuietly(s)
            /\ TraceErr(s) =>
                  /\ call[s].task.spans[1].trace # CallerTrace(s)
                  /\ call[s].task.spans[1].trace = NewTraceID(call[s].task.seed, 0)
            /\ (~TraceErr(s) /\ SpanErr(s)) =>
                  /\ call[s].task.spans[1].trace = IDFromHex(call[s].hdr.TraceID, TraceIDSize)
                  /\ call[s].task.spans[1].parent = ZeroID(SpanIDSize)

C5_Witness ==
    \E s \in Slots :
        /\ cfg.entry = "none" /\ HandlerRan(s) /\ call[s].pc = "responded"
        /\ call[s].hdr.TraceID = [GoodTraceHex EXCEPT ![1] = "g"]
        /\ ~SpanErr(s)
        /\ call[s].sc.trace = ZeroID(TraceIDSize)
        /\ call[s].sc.span = ClientSpan

\* the entry variants that return the fixed two-key user map
FixedMap == {"user1", "app1", "part000"}

\* C6: when the downstream answered 200 the client gets status 200 and
\* the fixed JSON map with the two keys user1 and user2, whatever headers
\* the inbound request carried.
C6_SuccessPayload ==
    \A s \in Slots :
        (cfg.entry \in FixedMap /\ req[s].pc = "done"
           /\ call[s].pc = "responded" /\ call[s].task.resp.status = 200) =>
            /\ req[s].task.resp.status = 200
            /\ req[s].task.writes = 1
            /\ req[s].task.resp.body.kind = "json"
            /\ {kv[1] : kv \in req[s].task.resp.body.fields} = {"user1", "user2"}
            /\ Cardinality(req[s].task.resp.body.fields) = 2

C6_Witness ==
    \E s \in Slots :
        /\ cfg.entry = "user1" /\ req[s].pc = "done"
        /\ req[s].inbound # NoHeaders
        /\ call[s].pc = "responded" /\ call[s].task.resp.status = 200
        /\ req[s].task.resp.status = 200

\* C7: when the outbound call of 1_user-service fails in the network the
\* client gets status 500 with an error body and the UserHandler span is
\* ended with status Error.
C7_UnreachableErrorStatus ==
    \A s \in Slots :
        (cfg.entry = "user1" /\ req[s].pc = "done" /\ call[s].pc = "failed") =>
            /\ req[s].task.resp.status = 500
            /\ \E kv \in req[s].task.resp.body.fields : kv[1] = "error"
            /\ LET h == req[s].task.spans[SpanIdx(req[s].task, "UserHandler")]
               IN h.ends = 1 /\ h.status = "Error"

\* the downstream call of slot s failed: a network error or a status other than 200
CallFailed(s) ==
    \/ call[s].pc = "failed"
    \/ call[s].pc = "responded" /\ call[s].task.resp.status # 200

\* C8: in every entry variant, after a failed downstream call the failure
\* is recorded on a span of the caller and the client gets a 5xx status.
C8_FailureGives5xx ==
    \A s \in Slots :
        (cfg.entry # "none" /\ req[s].pc = "done" /\ CallFailed(s)) =>
            /\ req[s].task.resp.status \in 500..599
            /\ \E i \in 1..Len(req[s].task.spans) :
                  \E k \in 1..Len(req[s].task.spans[i].events) :
                      req[s].task.spans[i].events[k][1] = "exception"

\* C9: a failed call to a dependency (the next hop, the database) is not
\* retried and does not end the process.
C9_FailureNeverFatal ==
    \A s \in Slots :
        /\ req[s].attempts <= 1
        /\ req[s].pc # "fatal"

\* the record of a process without the command line it was started with
Masked(pr) == [pr EXCEPT !.args = <<>>, !.backend = ""]

\* the position of the backend name on the command line
BackendArg(v) == IF v = "app1" THEN 2 ELSE 1

\* C10: a process started with a backend name that is none of jaeger,
\* newrelic, opsramp is, once main has run, in the state main reaches when
\* started with jaeger (for the same answers of the environment): the
\* jaegerProvider provider is built and registered once, no error comes of
\* the name, and the spans of the requests it serves come from that provider.
C10_UnrecognizedIsJaeger ==
    \A p \in {"entry", "down"} :
        LET pr == proc[p]
            k == BackendArg(pr.variant)
        IN (pr.variant \in {"app1", "app2"} /\ pr.phase # "init"
              /\ Len(pr.args) >= k /\ pr.args[k] \notin Recognized) =>
             LET ja == NewProc(pr.variant, [pr.args EXCEPT ![k] = "jaeger"])
             IN /\ \E e \in BOOLEAN, l \in BOOLEAN :
                      \/ Masked(pr) = Masked(main(ja, e, l))
                      \/ Masked(pr) = Masked(Exited(main(ja, TRUE, TRUE), 1, "log.Fatalf"))
                /\ pr.phase = "serving" =>
                      /\ pr.provider.ctor = "jaegerProvider"
                      /\ pr.registrations = 1 /\ pr.built = 1
                /\ \A s \in Slots :
                      LET t == IF p = "entry" THEN req[s].task ELSE call[s].task
                      IN \A i \in 1..Len(t.spans) :
                            t.spans[i].provider.ctor = "jaegerProvider"

C10_Witness ==
    \E s \in Slots :
        /\ proc["down"].variant = "app2" /\ proc["down"].args = <<"zipkin">>
        /\ proc["down"].phase = "serving"
        /\ proc["down"].provider.ctor = "jaegerProvider"
        /\ call[s].pc = "responded" /\ HandlerRan(s)
        /\ call[s].task.resp.status = 200

\* a process whose command line lacks the backend name only (app1 has its URL)
BackendMissing(pr) ==
    /\ pr.variant \in {"app1", "app2"}
    /\ Len(pr.args) = BackendArg(pr.variant) - 1

\* C11: a process started without the backend name is, once main has run,
\* in the state main reaches when started with jaeger appended to the
\* command line: the jaegerProvider provider is built and registered and
\* the process serves requests.
C11_MissingIsJaeger ==
    \A p \in {"entry", "down"} :
        LET pr == proc[p]
        IN (BackendMissing(pr) /\ pr.phase # "init") =>
             LET ja == NewProc(pr.variant, Append(pr.args, "jaeger"))
             IN \E e \in BOOLEAN, l \in BOOLEAN :
                   \/ Masked(pr) = Masked(main(ja, e, l))
                   \/ Masked(pr) = Masked(Exited(main(ja, TRUE, TRUE), 1, "log.Fatalf"))

\* the tasks of the handlers process p has run for the requests in flight
TasksOf(p) == {(IF p = "entry" THEN req[s].task ELSE call[s].task) : s \in Slots}

\* what holds of the provider in every state of a process run
OneProviderNow(p) ==
    LET pr == proc[p]
    IN /\ pr.built <= 1 /\ pr.registrations = pr.built
       /\ \A i \in 1..Len(pr.log) :
             pr.log[i] = "listen" =>
                /\ Cardinality({j \in 1..(i - 1) : pr.log[j] = "provider"}) = 1
                /\ Cardinality({j \in 1..(i - 1) : pr.log[j] = "SetTracerProvider"}) = 1
       /\ pr.phase = "serving" => pr.built = 1 /\ pr.provider # NoProvider
       /\ \A t \in TasksOf(p) :
             \A i \in 1..Len(t.spans) : t.spans[i].provider = pr.provider

\* no step taken once the server listens writes the provider or the URL
ProviderReadOnly(p) ==
    proc[p].phase = "serving" =>
        /\ proc'[p].provider = proc[p].provider
        /\ proc'[p].url = proc[p].url
        /\ proc'[p].built = proc[p].built
        /\ proc'[p].registrations = proc[p].registrations

\* C12: a process run builds and registers one tracer provider, before the
\* server listens; from then on no step writes the provider or the
\* downstream URL, and the spans of every request come from that provider.
C12_OneProvider ==
    /\ [](\A p \in {"entry", "down"} : OneProviderNow(p))
    /\ [][\A p \in {"entry", "down"} : ProviderReadOnly(p)]_vars

C12_Witness ==
    \E s \in Slots :
        /\ cfg.entry = "user1" /\ req[s].pc = "done" /\ HandlerRan(s)
        /\ proc["entry"].phase = "serving" /\ proc["down"].phase = "serving"
        /\ proc["entry"].registrations = 1 /\ proc["down"].registrations = 1
        /\ req[s].task.spans[1].provider.ctor = "jaegerProvider"
        /\ call[s].task.spans[1].provider.service = "authn-service"

\* C13: a process that built a provider and then stopped (the server
\* returned, or startup aborted after the constructor) has executed the
\* provider's shutdown, or its exporter's, before it exited.
C13_FlushOnStop ==
    \A p \in {"entry", "down"} :
        (proc[p].phase = "exited" /\ proc[p].built >= 1) =>
            \/ proc[p].shutdowns >= 1
            \/ \E i \in 1..Len(proc[p].log) : proc[p].log[i] = "exporter.Shutdown"

(***************************************************************************)
(* shutdownTraceProvider, called on the provider of a running process.     *)
(***************************************************************************)
\* what tp.Shutdown(ctx) comes to: it returns nil, it returns an error, or
\* the 5 second deadline of ctx passes first and it returns ctx.Err()
ShutdownOutcomes == {"nil", "error", "context deadline exceeded"}

\* a mutant of shutdownTraceProvider: the error of tp.Shutdown is dropped
shutdownTraceProviderIgnoresError(pr, outcome) ==
    Exited([pr EXCEPT !.log = pr.log \o <<outcome, "cancel">>], 0, "return")

\* the function entered: context.WithTimeout(ctx, 5s), defer cancel(),
\* and tp.Shutdown(ctx) called
EnterShutdown(pr) ==
    [pr EXCEPT !.phase = "stopping",
               !.log = pr.log \o <<"WithTimeout", "tp.Shutdown">>,
               !.shutdowns = pr.shutdowns + 1]

\* the function from the return of tp.Shutdown on: panic(err) on an error,
\* a normal return otherwise; the deferred cancel() runs either way
shutdownTraceProvider(pr, outcome) ==
    IF outcome = "nil"
    THEN Exited([pr EXCEPT !.log = pr.log \o <<outcome, "cancel">>], 0, "return")
    ELSE Exited([pr EXCEPT !.log = pr.log \o <<outcome, "cancel">>], 2, "panic")

\* the handlers of process p end with the process
ReqAfterExit(p) ==
    IF p = "entry"
    THEN [s \in Slots |-> IF req[s].pc \in {"calling", "data"}
                          THEN [req[s] EXCEPT !.pc = "killed"] ELSE req[s]]
    ELSE req

CallAfterExit(p) ==
    IF p = "down"
    THEN [s \in Slots |-> IF call[s].pc = "sleep"
                          THEN [call[s] EXCEPT !.pc = "failed"] ELSE call[s]]
    ELSE call

\* shutdownTraceProvider(ctx, tp) is called in a process that deferred it
CallShutdown(p) ==
    /\ proc[p].phase = "serving"
    /\ proc[p].deferred = <<"shutdownTraceProvider">>
    /\ proc' = [proc EXCEPT ![p] = EnterShutdown(proc[p])]
    /\ UNCHANGED <<cfg, req, call>>

\* tp.Shutdown returns, with nil or with an error of its own
ShutdownReturns(p) ==
    /\ proc[p].phase = "stopping"
    /\ \E outcome \in {"nil", "error"} :
          proc' = [proc EXCEPT ![p] = shutdownTraceProvider(proc[p], outcome)]
    /\ req' = ReqAfterExit(p)
    /\ call' = CallAfterExit(p)
    /\ UNCHANGED cfg

\* the deadline passes while tp.Shutdown is flushing
DeadlineFires(p) ==
    /\ proc[p].phase = "stopping"
    /\ proc' = [proc EXCEPT ![p] =
                  shutdownTraceProvider(proc[p], "context deadline exceeded")]
    /\ req' = ReqAfterExit(p)
    /\ call' = CallAfterExit(p)
    /\ UNCHANGED cfg

NextShutdown ==
    \/ Next
    \/ \E p \in {"entry", "down"} : CallShutdown(p)
    \/ \E p \in {"entry", "down"} : ShutdownReturns(p)
    \/ \E p \in {"entry", "down"} : DeadlineFires(p)

\* the timer of context.WithTimeout fires unless the call has returned
SpecShutdown ==
    /\ Init
    /\ [][NextShutdown]_vars
    /\ WF_vars(\E p \in {"entry", "down"} : DeadlineFires(p))

InLog(pr, e) == \E i \in 1..Len(pr.log) : pr.log[i] = e

\* what holds of shutdownTraceProvider in every state
ShutdownContract(p) ==
    LET pr == proc[p]
    IN /\ pr.shutdowns <= 1
       /\ pr.shutdowns = Cardinality({i \in 1..Len(pr.log) : pr.log[i] = "tp.Shutdown"})
       /\ pr.phase \in {"init", "serving"} => pr.shutdowns = 0
       /\ \A i \in 1..Len(pr.log) :
             pr.log[i] = "tp.Shutdown" => (i > 1 /\ pr.log[i - 1] = "WithTimeout")
       /\ (pr.phase = "exited" /\ pr.shutdowns = 1) =>
             /\ InLog(pr, "cancel")
             /\ InLog(pr, "nil") =>
                   pr.exit = 0 /\ pr.log[Len(pr.log)] = "return"
             /\ (InLog(pr, "error") \/ InLog(pr, "context deadline exceeded")) =>
                   pr.exit = 2 /\ pr.log[Len(pr.log)] = "panic"

\* C14: shutdownTraceProvider calls tp.Shutdown once, under the deadline;
\* it panics when tp.Shutdown returns an error, the deadline's included,
\* and returns normally otherwise; it always comes to an end; nothing of
\* it has run while the process is still serving.
C14_ShutdownContract ==
    /\ [](\A p \in {"entry", "down"} : ShutdownContract(p))
    /\ \A p \in {"entry", "down"} :
          (proc[p].phase = "stopping") ~> (proc[p].phase = "exited")

C14_Witness ==
    \E p \in {"entry", "down"} :
        /\ proc[p].phase = "exited" /\ proc[p].shutdowns = 1
        /\ InLog(proc[p], "context deadline exceeded")
        /\ proc[p].exit = 2

\* main of process p ended in the exporter's constructor
ExporterFailed(p) ==
    /\ proc[p].phase = "exited"
    /\ proc[p].exporter = "none"
    /\ proc[p].log # <<>>
    /\ proc[p].log[Len(proc[p].log)] \in {"log.Fatalf", "panic"}

\* C15: when the exporter's construction fails the process ends at once
\* (exit status 1 from log.Fatalf, 2 from panic): no provider is built or
\* registered, no route is registered, the server never listens, the
\* process serves no request and stays ended.
C15_ConstructionFailureFatal ==
    /\ [](\A p \in {"entry", "down"} :
            ExporterFailed(p) =>
               /\ proc[p].exit \in {1, 2}
               /\ proc[p].built = 0 /\ proc[p].registrations = 0
               /\ proc[p].provider = NoProvider
               /\ proc[p].routes = {}
               /\ ~InLog(proc[p], "listen") /\ ~InLog(proc[p], "route")
               /\ \A t \in TasksOf(p) : t.spans = <<>> /\ t.writes = 0)
    /\ [][\A p \in {"entry", "down"} :
            ExporterFailed(p) => proc'[p] = proc[p]]_vars

C15_Witness ==
    /\ ExporterFailed("entry") /\ proc["entry"].variant = "golang"
    /\ proc["entry"].exit = 2
    /\ proc["down"].phase = "serving"

\* the spans called name that task t started
Started(t, name) == {i \in 1..Len(t.spans) : t.spans[i].name = name}

\* the handler of the downstream service was invoked for the call of slot s
DownInvoked(s) ==
    /\ call[s].pc \in {"sleep", "responded"}
    /\ call[s].path = DownRoute(cfg.down)

\* C16: a handler that was invoked has started one span of its own, the
\* first span of the invocation, and has done nothing on a span it did
\* not start; for the handler of every route of every service.
C16_OneSpanPerHandler ==
    \A s \in Slots :
        /\ (cfg.entry # "none" /\ req[s].pc # "idle") =>
              /\ Started(req[s].task, HName(cfg.entry)) = {1}
              /\ req[s].task.orphan = 0
        /\ DownInvoked(s) =>
              /\ Started(call[s].task, DownHName(cfg.down)) = {1}
              /\ call[s].task.orphan = 0

\* the span of the handler called name, ended, has its final status: Ok
\* after a 200 response, Error with a message after a failure
FinalStatusSet(t, name) ==
    \A i \in Started(t, name) :
        t.spans[i].ends >= 1 =>
            /\ t.spans[i].status # "Unset"
            /\ t.resp.status = 200 => t.spans[i].status = "Ok"
            /\ t.resp.status >= 500 =>
                  t.spans[i].status = "Error" /\ t.spans[i].statusMsg # ""

\* C17: no handler span is ended with its status unset, in the entry
\* services and in the downstream services: the status is Ok on the
\* success path and Error with a message on every failure path.
C17_FinalStatus ==
    \A s \in Slots :
        /\ cfg.entry # "none" => FinalStatusSet(req[s].task, HName(cfg.entry))
        /\ FinalStatusSet(call[s].task, DownHName(cfg.down))

\* the spans of task t have gone Created, Active, Ended in that order and
\* no call reached one of them after its End
SpansInOrder(t) ==
    \A i \in 1..Len(t.spans) :
        LET sp == t.spans[i]
        IN /\ sp.late = 0
           /\ sp.ends <= 1
           /\ sp.startedAt >= 1
           /\ sp.ends = 0 => sp.endedAt = 0
           /\ sp.ends = 1 => sp.startedAt < sp.endedAt /\ sp.endedAt <= t.clock

ConcPairs == {<<"user1", "authn">>, <<"golang", "authz">>, <<"none", "app2">>}

InitConc ==
    /\ InitWith(MaxSlots)
    /\ <<cfg.entry, cfg.down>> \in ConcPairs

SpecConc == InitConc /\ [][Next]_vars

\* the finished invocations of the entry handler of variant v when it
\* handles one request alone, over every answer of its dependencies
AloneDone(v, prov, url) ==
    UNION {
      LET t0 == Run(NewTask(seed), EntryStart(v), NoCtx, prov)
          open == [i \in 1..Len(t0.spans) |-> t0.spans[i].name]
          t1 == Run(t0, EntryOnResponse(v), NoCtx, prov)
      IN IF ~URLParses(TargetURL(v, url))
         THEN {Run(t0, EntryOnPanic(v, open), NoCtx, prov)}
         ELSE {Run(t0, EntryOnNetErr(v), NoCtx, prov)}
                \cup (IF ChecksStatus(v)
                      THEN {Run(t0, EntryOnBadStatus(v), NoCtx, prov)} ELSE {})
                \cup (IF BlocksInData(v)
                      THEN {Run(t1, EntryOnData(v), NoCtx, prov),
                            Run(t1, EntryOnPanic(v, <<HName(v), SName(v), DName(v)>>),
                                NoCtx, prov)}
                      ELSE {t1})
      : seed \in Seeds }

\* a step that changes the request or the call of slot s
Touches(s) == req'[s] # req[s] \/ call'[s] # call[s]

\* http.ListenAndServe returned in this step (log.Fatalf in main)
ServerStopped ==
    \E p \in {"entry", "down"} :
        /\ proc[p].phase = "serving" /\ proc'[p].phase = "exited"
        /\ proc'[p].log[Len(proc'[p].log)] = "log.Fatalf"

\* C19: with requests handled at once, a step of one request changes the
\* spans, the response and the call of no other request (only the server's
\* own stop ends them all), and a request that has finished has the
\* response, the spans and their events, attributes and status it has
\* when it is handled alone.
C19_Isolation ==
    /\ [](\A s \in Slots :
            (cfg.entry # "none" /\ req[s].pc = "done") =>
               req[s].task \in AloneDone(cfg.entry, proc["entry"].provider,
                                         proc["entry"].url))
    /\ [][\A s \in Slots, r \in Slots :
            (s # r /\ Touches(s) /\ Touches(r)) => ServerStopped]_vars

\* C19 in the services that have no database: the same, and no request
\* is left without its response by another one
C19_IsolationNoDatabase ==
    /\ [](cfg.entry # "golang" =>
            \A s \in Slots :
               (cfg.entry # "none" /\ req[s].pc = "done") =>
                  req[s].task \in AloneDone(cfg.entry, proc["entry"].provider,
                                            proc["entry"].url))
    /\ [][cfg.entry # "golang" =>
            \A s \in Slots, r \in Slots :
               (s # r /\ Touches(s) /\ Touches(r)) => ServerStopped]_vars

(***************************************************************************)
(* Progress: every outbound call returns, every sleep ends, every handler  *)
(* that can take a step does.                                              *)
(***************************************************************************)
\* a step that a handler waits for: its outbound call returns (an error
\* or a response), its sleep or its query ends
Returns ==
    \E s \in Slots :
        NetError(s) \/ Deliver(s) \/ DownWake(s) \/ Return(s) \/ Data(s)

SpecLive == Init /\ [][Next]_vars /\ WF_vars(Returns)

\* the entry server was stopped from outside the handlers:
\* http.ListenAndServe returned and main called log.Fatalf
EntryServerStopped ==
    /\ proc["entry"].phase = "exited"
    /\ proc["entry"].log[Len(proc["entry"].log)] = "log.Fatalf"

\* the handler of slot s is waiting for its outbound call: nothing is
\* written to the client and none of its spans is ended, however long
HeldByCall(s) ==
    req[s].pc = "calling" =>
        /\ req[s].task.writes = 0
        /\ \A i \in 1..Len(req[s].task.spans) : req[s].task.spans[i].ends = 0

\* C20: a handler waits only for its outbound call and its simulated
\* work. Every outbound call returning, every request in the handler
\* comes to its response with every span it started ended (unless the
\* server itself is stopped); and as long as the call has not returned
\* the request has no response and its spans stay open.
C20_Progress ==
    /\ [](\A s \in Slots : HeldByCall(s))
    /\ [](\A s \in Slots : req[s].pc = "done" =>
             req[s].task.writes >= 1 /\ AllEndedOnce(req[s].task))
    /\ \A s \in Slots :
          (req[s].pc \in {"calling", "data"})
             ~> (req[s].pc = "done" \/ EntryServerStopped)

\* C20 in the services that have no database
C20_ProgressNoDatabase ==
    /\ [](\A s \in Slots : HeldByCall(s))
    /\ [](\A s \in Slots : req[s].pc = "done" =>
             req[s].task.writes >= 1 /\ AllEndedOnce(req[s].task))
    /\ \A s \in Slots :
          (cfg.entry # "golang" /\ req[s].pc \in {"calling", "data"})
             ~> (req[s].pc = "done" \/ EntryServerStopped)

(***************************************************************************)
(* Properties of the downstream handlers and of the entry handlers' paths. *)
(***************************************************************************)
\* the invocation of the downstream handler of d, run to its return, for
\* a request with headers hdr
DownAlone(d, seed, hdr, prov) ==
    Run(NewTask(seed),
        DownStart(d) \o (IF DownBlocks(d) THEN DownOnWake(d) ELSE <<>>),
        RemoteCtx(hdr), prov)

\* a span without what ties it to a trace and a parent
Untied(sp) ==
    [sp EXCEPT !.trace = <<>>, !.id = <<>>, !.parent = <<>>, !.parentRemote = FALSE]

\* a finished invocation without the identifiers of its spans
Outcome(t) ==
    [resp |-> t.resp, writes |-> t.writes, respondedAt |-> t.respondedAt,
     spans |-> [i \in 1..Len(t.spans) |-> Untied(t.spans[i])]]

\* C21: the downstream handlers validate nothing of the TraceID and SpanID
\* headers: the request answered in slot s and the request that differs
\* from it only in those two headers, whatever their values, get the same
\* status and body (200), and the spans of the two invocations differ in
\* nothing but the trace and the parent they are attached to, which are
\* the ones the headers name.
C21_HeadersTrusted ==
    \A s \in Slots :
        (call[s].pc = "responded" /\ HandlerRan(s)) =>
            /\ call[s].task.resp.status = 200
            /\ call[s].task.spans[1].parent = IDFromHex(call[s].hdr.SpanID, SpanIDSize)
            /\ \A h2 \in ClientHeaders :
                  LET other == DownAlone(cfg.down, call[s].task.seed, h2,
                                         proc["down"].provider)
                  IN /\ other.resp = call[s].task.resp
                     /\ Outcome(other) = Outcome(call[s].task)
                     /\ other.spans[1].parent = IDFromHex(h2.SpanID, SpanIDSize)
                     /\ IsValid(IDFromHex(h2.TraceID, TraceIDSize)) =>
                           other.spans[1].trace = IDFromHex(h2.TraceID, TraceIDSize)

C21_Witness ==
    \E s \in Slots :
        /\ cfg.entry = "none" /\ cfg.down = "authz"
        /\ call[s].pc = "responded" /\ HandlerRan(s)
        /\ call[s].hdr = NoHeaders
        /\ call[s].task.resp.status = 200
        /\ call[s].task.spans[1].trace #
              DownAlone("authz", call[s].task.seed,
                        [TraceID |-> GoodTraceHex, SpanID |-> GoodSpanHex],
                        proc["down"].provider).spans[1].trace


\* the variants whose service layer tests the downstream status
Gating == {"user1", "app1"}

\* the downstream call of slot s came back without error and with 200
Verified(s) == call[s].pc = "responded" /\ call[s].task.resp.status = 200

\* C22: in 1_user-service and app1 the user-data step is gated by the
\* verification: its span is started only when the downstream call of the
\* same request returned without error and with status 200; when the call
\* failed or answered another status (the README's negative case: a URL
\* the downstream does not serve) no database span is started and the
\* answer, once written, is not the user map; and an answer of 200 with
\* the user map implies the downstream answered 200 to that request.
C22_VerificationGates ==
    \A s \in Slots :
        (cfg.entry \in Gating /\ req[s].pc # "idle") =>
            LET t == req[s].task
                v == cfg.entry
            IN /\ Started(t, DName(v)) # {} => Verified(s)
               /\ req[s].pc = "data" => Verified(s)
               /\ (call[s].pc \in {"failed", "responded"} /\ ~Verified(s)) =>
                     /\ Started(t, DName(v)) = {}
                     /\ t.resp # NoResp => (t.resp.status # 200 /\ t.resp.body # UserMap(v))
               /\ (t.resp # NoResp /\ (t.resp.status = 200 \/ t.resp.body = UserMap(v))) =>
                     (Verified(s) /\ t.resp.status = 200 /\ t.resp.body = UserMap(v)
                      /\ Started(t, DName(v)) # {})

\* the README's negative case has been answered: the URL named the root
\* path, authn answered 404 and the client of user-service got its answer
C22_Witness ==
    \E s \in Slots :
        /\ cfg.entry = "user1" /\ cfg.down = "authn"
        /\ proc["entry"].url = URLRoot
        /\ req[s].pc = "done"
        /\ call[s].pc = "responded" /\ call[s].task.resp.status = 404
        /\ req[s].task.resp.status = 500
        /\ Started(req[s].task, "UserDatabase") = {}


\* the spans of one request of 1_user-service, outermost first
UserSpans == <<"UserHandler", "UserService", "UserDatabase">>

\* the spans of task t are those of UserSpans started in that order, each
\* the child of the one before it, and none outlives its parent: once a
\* span has ended, the span it encloses ended before it
Nested(t) ==
    /\ Len(t.spans) <= Len(UserSpans)
    /\ \A i \in 1..Len(t.spans) : t.spans[i].name = UserSpans[i]
    /\ \A i \in 2..Len(t.spans) :
          LET child == t.spans[i]
              parent == t.spans[i - 1]
          IN /\ parent.startedAt < child.startedAt
             /\ child.parent = parent.id /\ child.trace = parent.trace
             /\ parent.ends > 0 =>
                   (child.ends > 0 /\ child.endedAt < parent.endedAt)

\* the response of task t was written while its outermost span was active
WrittenInHandler(t) ==
    t.resp # NoResp =>
        /\ Len(t.spans) >= 1
        /\ t.spans[1].startedAt < t.respondedAt
        /\ t.spans[1].ends > 0 => t.respondedAt < t.spans[1].endedAt

\* C23: the spans of one request in 1_user-service are strictly nested:
\* UserHandler starts before UserService, which starts before
\* UserDatabase, they end in the reverse order and no child is active
\* after its parent ended; and the HTTP response is written while the
\* UserHandler span is active, before that span is ended.
C23_StrictNesting ==
    \A s \in Slots :
        cfg.entry = "user1" =>
            /\ Nested(req[s].task)
            /\ WrittenInHandler(req[s].task)

\* the part of C23 that holds: the nesting on every path, and the
\* response written inside the UserHandler span whenever the URL
\* argument parses (a URL that does not parse makes UserService panic,
\* and the recovery middleware answers after the deferred End calls)
C23_NestingAndWriteUnlessPanic ==
    \A s \in Slots :
        cfg.entry = "user1" =>
            /\ Nested(req[s].task)
            /\ URLParses(proc["entry"].url) => WrittenInHandler(req[s].task)
            /\ req[s].pc = "done" =>
                  \A i \in 1..Len(req[s].task.spans) : req[s].task.spans[i].ends = 1

C23_NestingWitness ==
    \E s \in Slots :
        /\ cfg.entry = "user1" /\ req[s].pc = "done"
        /\ Len(req[s].task.spans) = 3
        /\ req[s].task.resp.status = 200
        /\ req[s].task.spans[3].endedAt < req[s].task.spans[2].endedAt
        /\ req[s].task.spans[2].endedAt < req[s].task.respondedAt
        /\ req[s].task.respondedAt < req[s].task.spans[1].endedAt


\* the span called name of task t (the handlers of 1_user-service start
\* each of their spans once)
SpanOf(t, name) == t.spans[SpanIdx(t, name)]

\* the downstream of slot s answered, and not with 200
Rejected(s) == call[s].pc = "responded" /\ call[s].task.resp.status # 200

\* C24: UserHandler of 1_user-service writes 200 or 500 to the client and
\* nothing else.  When the downstream answers non-200, UserService
\* records http.status_code 400 and the error "Invalid Request" on its
\* own span, and the client still receives 500 with the body
\* {"error": "Error calling authn service"} while the UserHandler span
\* records http.status_code 500; the client never receives 400 or 502.
C24_ClientSees200Or500 ==
    \A s \in Slots :
        cfg.entry = "user1" =>
            LET t == req[s].task
            IN /\ t.resp # NoResp => t.resp.status \in {200, 500}
               /\ (req[s].pc = "done" /\ Rejected(s)) =>
                     /\ <<"http.status_code", "400">> \in SpanOf(t, "UserService").attrs
                     /\ SpanOf(t, "UserService").status = "Error"
                     /\ SpanOf(t, "UserService").statusMsg = "Invalid Request"
                     /\ \E i \in 1..Len(SpanOf(t, "UserService").events) :
                           SpanOf(t, "UserService").events[i] = <<"exception", "Invalid Request">>
                     /\ \E i \in 1..Len(SpanOf(t, "UserHandler").events) :
                           SpanOf(t, "UserHandler").events[i] = <<"exception", "Invalid Request">>
                     /\ <<"http.status_code", "500">> \in SpanOf(t, "UserHandler").attrs
                     /\ <<"http.status_code", "400">> \notin SpanOf(t, "UserHandler").attrs
                     /\ t.resp = [status |-> 500,
                                  body |-> JSON({<<"error", "Error calling authn service">>})]
                     /\ t.writes = 1

C24_Witness ==
    \E s \in Slots :
        /\ cfg.entry = "user1"
        /\ req[s].pc = "done" /\ Rejected(s)
        /\ <<"http.status_code", "400">> \in SpanOf(req[s].task, "UserService").attrs
        /\ req[s].task.resp.status = 500


\* task t is a finished invocation of app2's HandlerLayer: answered 200,
\* once, inside the HandlerLayer span, whose status was never set; the
\* ServiceLayer span is its child and ended before the response
AnsweredOK(t) ==
    /\ Len(t.spans) = 2
    /\ t.spans[1].name = "App2-HandlerLayer" /\ t.spans[2].name = "App2-ServiceLayer"
    /\ t.resp.status = 200 /\ t.writes = 1
    /\ t.spans[1].status = "Unset"
    /\ <<"http.status_code", "500">> \notin t.spans[1].attrs
    /\ t.spans[2].parent = t.spans[1].id /\ t.spans[2].trace = t.spans[1].trace
    /\ ~t.spans[2].parentRemote
    /\ t.spans[1].startedAt < t.spans[2].startedAt
    /\ t.spans[2].ends = 1 /\ t.spans[2].endedAt < t.respondedAt
    /\ t.spans[1].ends = 1 /\ t.respondedAt < t.spans[1].endedAt

\* C25: HandlerLayer of app2 answers 200 to every request it handles.  An
\* error returned by ServiceLayer (the branch taken in slot s were
\* DatabaseLayer to fail) is only logged: the response is the same 200 and
\* the HandlerLayer span's status stays unset, the error is on the
\* ServiceLayer span alone.  The ServiceLayer span is a child of the
\* HandlerLayer span and is ended before HandlerLayer writes its response.
C25_App2AlwaysOK ==
    \A s \in Slots :
        cfg.down = "app2" =>
            /\ (call[s].pc = "responded" /\ HandlerRan(s)) =>
                  (AnsweredOK(call[s].task) /\ call[s].task.spans[2].status = "Unset")
            /\ call[s].pc = "sleep" =>
                  LET failed == Run(call[s].task, DownOnWakeErr("app2"), call[s].sc,
                                    proc["down"].provider)
                      passed == Run(call[s].task, DownOnWake("app2"), call[s].sc,
                                    proc["down"].provider)
                  IN /\ call[s].task.resp = NoResp
                     /\ AnsweredOK(failed) /\ failed.spans[2].status = "Error"
                     /\ failed.resp = passed.resp
                     /\ failed.spans[1].status = passed.spans[1].status
                     /\ failed.spans[1].attrs = passed.spans[1].attrs
                     /\ failed.spans[1].events = passed.spans[1].events

C25_Witness ==
    \E s \in Slots :
        /\ cfg.entry = "app1" /\ cfg.down = "app2"
        /\ call[s].pc = "responded" /\ HandlerRan(s)
        /\ call[s].task.resp.status = 200
        /\ call[s].task.spans[2].endedAt < call[s].task.respondedAt


\* process p is 1_user-service started without the URL argument
NoURLArgument(p) == proc[p].variant = "user1" /\ proc[p].args = <<>>

\* the place of entry e in the log of pr, 0 when it is not there
LogIdx(pr, e) ==
    IF InLog(pr, e) THEN CHOOSE i \in 1..Len(pr.log) : pr.log[i] = e ELSE 0

\* C26: 1_user-service started without the URL argument never listens and
\* never serves a request: it registers no route and once main has run it
\* has exited with status 1.  When it leaves at the argument test
\* (os.Exit(1)) the tracer provider has been constructed and registered
\* and its shutdown has been deferred, and the process exits without
\* running it.  No 1_user-service serves with an empty downstream URL.
C26_NoURLExitsBeforeServing ==
    /\ \A p \in {"entry", "down"} :
          NoURLArgument(p) =>
              LET pr == proc[p]
              IN /\ pr.phase \in {"init", "exited"}
                 /\ pr.routes = {} /\ ~InLog(pr, "route") /\ ~InLog(pr, "listen")
                 /\ pr.shutdowns = 0 /\ ~InLog(pr, "shutdownTraceProvider")
                 /\ pr.phase = "exited" => pr.exit = 1
                 /\ InLog(pr, "os.Exit") =>
                       /\ pr.phase = "exited" /\ pr.exit = 1
                       /\ pr.built = 1 /\ pr.registrations = 1
                       /\ pr.provider # NoProvider
                       /\ 0 < LogIdx(pr, "provider")
                       /\ LogIdx(pr, "provider") < LogIdx(pr, "SetTracerProvider")
                       /\ LogIdx(pr, "SetTracerProvider") < LogIdx(pr, "os.Exit")
                       /\ pr.deferred = <<"shutdownTraceProvider">>
                 /\ p = "entry" => \A s \in Slots : req[s] = IdleReq /\ call[s] = NoCall
    /\ (proc["entry"].variant = "user1" /\ proc["entry"].phase = "serving") =>
          proc["entry"].url # ""

C26_Witness ==
    /\ NoURLArgument("entry")
    /\ proc["entry"].phase = "exited" /\ proc["entry"].exit = 1
    /\ InLog(proc["entry"], "os.Exit")
    /\ proc["entry"].registrations = 1 /\ proc["entry"].shutdowns = 0


(***************************************************************************)
(* The provider constructors, each called on its own and its provider      *)
(* then used by a handler.                                                 *)
(***************************************************************************)
\* the functions of the repository that build, register and return a
\* tracer provider, named by the program that holds them
Constructors ==
    {"user1.jaegerProvider", "user1.newRelicProvider",
     "app1.jaegerProvider", "app1.opsrampProvider", "app1.newRelicProvider",
     "app2.jaegerProvider", "app2.opsrampProvider", "app2.newRelicProvider",
     "golang.jaegerProvider", "golang.newRelicProvider",
     "part000.jaegerProvider", "part000.newRelicProvider",
     "part001.jaegerProvider", "part001.newRelicProvider"}

\* the statements of constructor c.  jaegerProvider of the second authn
\* program defers exporter.Shutdown inside the constructor itself
ctorBody(c) ==
    CASE c = "user1.jaegerProvider" -> jaegerProvider("user-service")
      [] c = "app1.jaegerProvider" -> jaegerProvider("App1")
      [] c = "app2.jaegerProvider" -> jaegerProvider("App2")
      [] c = "golang.jaegerProvider" -> jaegerProvider("ServiceA")
      [] c = "part000.jaegerProvider" -> jaegerProvider("User-Service")
      [] c = "app1.opsrampProvider" -> opsrampProvider("App1")
      [] c = "app2.opsrampProvider" -> opsrampProvider("App2")
      [] c = "part001.jaegerProvider" ->
           <<NewExporter("otlpgrpc", "fatal"), Defer("exporter.Shutdown"),
             NewProvider("jaegerProvider", "authn-service"), Register>>
      [] OTHER -> newRelicProvider

\* constructor c called and returned: its statements, then the calls it
\* deferred (none runs when the constructor left through log.Fatalf or
\* a panic ended the process)
Construct(pr, exporterOK) ==
    LET r == RunMain(pr, ctorBody(pr.variant), exporterOK, TRUE)
    IN IF r.phase = "exited" THEN r
       ELSE [RunDeferred(r, r.deferred) EXCEPT !.phase = "constructed", !.deferred = <<>>]

\* Shutdown has been called on the exporter of pr, by exporter.Shutdown
\* or through the provider's tp.Shutdown
ExporterShut(pr) == InLog(pr, "exporter.Shutdown") \/ pr.shutdowns >= 1

InitCtor ==
    /\ cfg = [entry |-> "none", down |-> "authn", slots |-> 1]
    /\ \E c \in Constructors :
          proc = [p \in {"entry", "down"} |->
                     IF p = "entry" THEN [NewProc("none", <<>>) EXCEPT !.phase = "absent"]
                     ELSE NewProc(c, <<>>)]
    /\ req = [s \in Slots |-> IdleReq]
    /\ call = [s \in Slots |-> NoCall]

\* the constructor is called
CtorCall ==
    /\ proc["down"].phase = "init"
    /\ \E exporterOK \in BOOLEAN :
          proc' = [proc EXCEPT !["down"] = Construct(proc["down"], exporterOK)]
    /\ UNCHANGED <<cfg, req, call>>

\* a handler serves a request with the provider the constructor returned
\* and registered: otel.GetTracerProvider().Tracer(...).Start(...)
CtorUse(s) ==
    /\ proc["down"].phase = "constructed"
    /\ call[s].pc = "none"
    /\ s <= cfg.slots
    /\ \E seed \in DownSeeds, h \in ClientHeaders :
          call' = [call EXCEPT ![s] = [pc |-> "responded", path |-> "/verify", hdr |-> h,
                                       sc |-> RemoteCtx(h),
                                       task |-> Run(NewTask(seed), DownStart("authn"),
                                                    RemoteCtx(h), proc["down"].provider)]]
    /\ UNCHANGED <<cfg, proc, req>>

\* the request is over
CtorDone(s) ==
    /\ call[s].pc = "responded"
    /\ call' = [call EXCEPT ![s] = NoCall]
    /\ UNCHANGED <<cfg, proc, req>>

NextCtor ==
    \/ CtorCall
    \/ \E s \in Slots : CtorUse(s)
    \/ \E s \in Slots : CtorDone(s)

SpecCtor == InitCtor /\ [][NextCtor]_vars

\* C27: an exporter is never shut down while the provider bound to it can
\* still be used: the provider a constructor returned and registered, and
\* the provider of a process that serves requests, has an exporter on
\* which Shutdown has not been called, and every span a handler starts
\* belongs to such a provider.
C27_ExporterLive ==
    /\ \A p \in {"entry", "down"} :
          (proc[p].registrations >= 1 /\ proc[p].phase \in {"constructed", "serving"}) =>
              ~ExporterShut(proc[p])
    /\ \A s \in Slots :
          (HandlerRan(s) /\ proc["down"].phase \in {"constructed", "serving"}) =>
              ~ExporterShut(proc["down"])

\* the part of C27 that holds: every constructor but jaegerProvider of
\* the second authn program returns a provider whose exporter is live
C27_ExporterLiveButOne ==
    \A p \in {"entry", "down"} :
        (proc[p].registrations >= 1 /\ proc[p].phase \in {"constructed", "serving"}
           /\ proc[p].variant # "part001.jaegerProvider") =>
            ~ExporterShut(proc[p])

C27_LiveWitness ==
    \E s \in Slots :
        /\ proc["down"].variant = "user1.jaegerProvider"
        /\ proc["down"].phase = "constructed"
        /\ HandlerRan(s)
        /\ ~ExporterShut(proc["down"])

=============================================================================
